---- MODULE Spec2Model ----
(***************************************************************************)
(* Model of the L2 -> L1 relay in src/src/main.rs: the scheduler loop of   *)
(* main, the cycle body check_and_submit step by step, and the with_retry  *)
(* combinator.  Time is a natural number of seconds; a remote call takes   *)
(* an arbitrary number of seconds chosen by the environment.               *)
(***************************************************************************)
EXTENDS Integers, Sequences, FiniteSets, TLC

VARIABLES
    configFile,          \* environment: what config.toml holds
    walletFile,          \* environment: what the file at wallet_path holds
    pc,                  \* position of the single task
    config,              \* main: the loaded Config
    period,              \* tokio Interval: period
    deadline,            \* tokio Interval: deadline of the next tick
    start,               \* instant at which the Interval was created
    now,                 \* the clock
    wallet,              \* check_and_submit locals, named as in the source
    account_data,
    account_slot,
    mt_root,
    ws_root,
    slot_roots_account,
    instruction_data,
    instruction,
    recent_blockhash,
    transaction,
    activeCycles,        \* number of check_and_submit futures in progress
    calls,               \* remote calls made by the current (or last) cycle, with their responses
    submitted,           \* transactions it handed to send_and_confirm_transaction
    lastResult,          \* what the last check_and_submit returned, "none" while one runs
    stderr,              \* what the current (or last) cycle printed with eprintln
    termination,         \* how the process ended, "none" while it runs
    tickNo,              \* history: number of ticks delivered
    tickInstant,         \* history: the instant the last tick was scheduled for
    cycleStart,          \* history: when the last tick was delivered
    prevEnd,             \* history: when the last cycle completed
    allShort,            \* history: every completed cycle took less than one period
    overrunEnd,          \* history: completion time of the last cycle that outlasted >= 2 tick instants
    catchUps,            \* history: ticks delivered since then for instants before overrunEnd
    walletChanges,       \* environment: how often the wallet file has been rewritten
    afterFailure,        \* history: the cycle before the current one returned an error
    prevSubmission,      \* history: what the cycle before submitted; dropped by a read that differs
    firstWallet,         \* history: the keypair of the first successful load_wallet
    rpc,                 \* with_retry: position
    retries,             \* with_retry: local
    last_error,          \* with_retry: local
    attempts,            \* history: invocations of the operation
    slept_secs,          \* history: seconds slept by with_retry
    trace,               \* history: outcomes of the operation, in order
    ret                  \* with_retry: returned value

envVars == <<configFile, walletFile, walletChanges>>

schedVars == <<config, period, deadline, start>>

localVars == <<wallet, account_data, account_slot, mt_root, ws_root, slot_roots_account,
               instruction_data, instruction, recent_blockhash, transaction>>

histVars == <<tickNo, tickInstant, cycleStart, prevEnd, allShort, overrunEnd, catchUps>>

outVars == <<lastResult, stderr, termination>>

ioVars == <<calls, submitted>>

crossVars == <<afterFailure, prevSubmission, firstWallet>>

mainVars ==
    <<envVars, schedVars, localVars, histVars, outVars, pc, now, activeCycles, ioVars, crossVars>>

retryVars == <<rpc, retries, last_error, attempts, slept_secs, trace, ret>>

vars == <<mainVars, retryVars>>

(***************************************************************************)
(* Bounds of the model.                                                    *)
(***************************************************************************)
MaxTicks == 3

MaxDur == 1

MaxWalletChanges == 1

(***************************************************************************)
(* Constants of the program.                                               *)
(***************************************************************************)
RootStart == 8

RootEnd == 40

RootLen == 32

SlotBytes == 8

InitialRetries == 3

RetrySleepSecs == 1

Discriminator == <<249, 209, 47, 60, 18, 3, 81, 219>>

RootsSeed == <<114, 111, 111, 116, 115>>

SystemProgramId == "11111111111111111111111111111111"

Max(a, b) == IF a >= b THEN a ELSE b

(***************************************************************************)
(* Values the environment can supply.                                      *)
(***************************************************************************)
ConfigOf(status, program, leaf, slots, secs) ==
    [status |-> status,
     l1_rpc_url |-> "http://l1", l2_rpc_url |-> "http://l2",
     l1_program_id |-> program,
     leaf_chunk_address |-> leaf, slots_account |-> slots,
     wallet_path |-> "~/wallet.json",
     check_interval_secs |-> secs]

NoConfig == ConfigOf("unloaded", "", "", "", 0)

ConfigFiles ==
    { ConfigOf("ok", "Prog", "Leaf", "Slots", 1),
      ConfigOf("ok", "Prog", "Leaf", "Slots", 2),
      ConfigOf("ok", "Prog", "Leaf", "Slots", 0),
      ConfigOf("ok", "not-base58!", "Leaf", "Slots", 2),
      ConfigOf("ok", "Prog", "not-base58!", "Slots", 2),
      ConfigOf("ok", "Prog", "Leaf", "not-base58!", 2),
      ConfigOf("missing", "", "", "", 0),
      ConfigOf("bad_field", "Prog", "Leaf", "Slots", 0) }

WalletFiles == {"unreadable", "keypair1"}

\* How long reading config.toml can take.
StartDelays == {0, 1}

\* What a rewrite of the wallet file can leave in it.
RewrittenWalletFiles == {"keypair2"}

NoKeypair == [pubkey |-> "none", secret |-> "none"]

Flat(len, b) == [i \in 1..len |-> b]

Ramp(len, tail) == [i \in 1..len |-> IF i <= RootEnd THEN i ELSE tail]

AccountDatas == { <<>>, Ramp(39, 0), Flat(40, 1), Ramp(40, 0), Ramp(41, 7), Ramp(48, 9) }

Slots == {100, 2147483647}

L2Responses ==
    {[kind |-> "err", error |-> "TransportError", data |-> <<>>, slot |-> 0]}
    \cup {[kind |-> "none", error |-> "", data |-> <<>>, slot |-> s] : s \in {100}}
    \cup {[kind |-> "some", error |-> "", data |-> d, slot |-> s] : d \in AccountDatas, s \in Slots}

BlockhashResponses ==
    {[kind |-> "err", error |-> "TransportError", hash |-> ""],
     [kind |-> "ok", error |-> "", hash |-> "hashA"],
     [kind |-> "ok", error |-> "", hash |-> "hashB"]}

SendResponses ==
    {[kind |-> "ok", error |-> ""],
     [kind |-> "err", error |-> "TransportError"],
     [kind |-> "err", error |-> "ConfirmationError"],
     [kind |-> "err", error |-> "SubmissionError"]}

\* One remote call and what came back.
Call(name, response) == [name |-> name, response |-> response]

(***************************************************************************)
(* Pure helpers of the cycle body.                                         *)
(***************************************************************************)
\* load_config: the file must exist and deserialize into Config (every field
\* present and of its type; the addresses are plain strings at this point).
load_config(file) ==
    IF file.status = "ok" THEN [ok |-> TRUE, value |-> file]
    ELSE [ok |-> FALSE, value |-> NoConfig]

\* load_wallet: read_keypair_file of the expanded path.
load_wallet(file) ==
    IF file = "unreadable" THEN [ok |-> FALSE, value |-> NoKeypair]
    ELSE [ok |-> TRUE, value |-> [pubkey |-> "W-" \o file, secret |-> "S-" \o file]]

\* Pubkey::from_str: base58 text of a 32-byte key, an error otherwise.
Pubkey_from_str(s) ==
    IF s \in {"Prog", "Leaf", "Slots"} THEN [ok |-> TRUE, key |-> "pk:" \o s]
    ELSE [ok |-> FALSE, key |-> "none"]

RECURSIVE to_le_bytes(_, _)
\* u64::to_le_bytes: least significant byte first, k bytes.
to_le_bytes(n, k) ==
    IF k = 0 THEN <<>> ELSE <<n % 256>> \o to_le_bytes(n \div 256, k - 1)

\* The slice taken one byte early.
SliceRootOffByOne(data) == [i \in 1..RootLen |-> data[RootStart - 1 + i]]

\* &account_data[8..40] copied into a [u8; 32].
SliceRoot(data) == [i \in 1..RootLen |-> data[RootStart + i]]

ZeroRoot == [i \in 1..RootLen |-> 0]

\* A derivation that hashed the tree root as a further seed.
find_program_address_of_data(seeds, program) ==
    [pda_seeds |-> Append(seeds, mt_root), owner |-> program]

\* Pubkey::find_program_address(&[b"roots", &slot.to_le_bytes()], &program): a
\* function of the seeds and the program only, kept symbolic.
find_program_address(seeds, program) == [pda_seeds |-> seeds, owner |-> program]

AccountMeta_new(pubkey, is_signer) ==
    [pubkey |-> pubkey, is_signer |-> is_signer, is_writable |-> TRUE]

AccountMeta_new_readonly(pubkey, is_signer) ==
    [pubkey |-> pubkey, is_signer |-> is_signer, is_writable |-> FALSE]

\* The layout with the two roots exchanged.
BuildDataRootsSwapped(slot, tree, state) ==
    Discriminator \o to_le_bytes(slot, SlotBytes) \o state \o tree

BuildData(slot, tree, state) ==
    Discriminator \o to_le_bytes(slot, SlotBytes) \o tree \o state

\* The account list with the signer moved to the front.
BuildAccountsWalletFirst(slots_account, pda, wallet_pubkey) ==
    << AccountMeta_new(wallet_pubkey, TRUE),
       AccountMeta_new(slots_account, FALSE),
       AccountMeta_new_readonly(SystemProgramId, FALSE),
       AccountMeta_new(pda, FALSE) >>

BuildAccounts(slots_account, pda, wallet_pubkey) ==
    << AccountMeta_new(slots_account, FALSE),
       AccountMeta_new_readonly(SystemProgramId, FALSE),
       AccountMeta_new(pda, FALSE),
       AccountMeta_new(wallet_pubkey, TRUE) >>

NoInstruction == [program_id |-> "none", accounts |-> <<>>, data |-> <<>>]

NoAddress == [pda_seeds |-> <<>>, owner |-> "none"]

NoTransaction ==
    [instructions |-> <<>>, payer |-> "none", signers |-> <<>>, recent_blockhash |-> ""]

NoSubmission ==
    [valid |-> FALSE, slot |-> 0, data |-> <<>>, ins |-> NoInstruction, hash |-> ""]

\* A transaction that took the block reference of the cycle before.
new_signed_with_payer_stale(ins, payer, signer, hash) ==
    [instructions |-> <<ins>>, payer |-> payer, signers |-> <<signer.pubkey>>,
     recent_blockhash |-> IF prevSubmission.valid THEN prevSubmission.hash ELSE hash]

\* Transaction::new_signed_with_payer(&[instruction], Some(&payer), &[&wallet], hash)
new_signed_with_payer(ins, payer, signer, hash) ==
    [instructions |-> <<ins>>, payer |-> payer, signers |-> <<signer.pubkey>>,
     recent_blockhash |-> hash]

(***************************************************************************)
(* The tokio Interval.  tick() completes once the deadline has passed and  *)
(* re-arms the timer; the Interval is built by interval(), so its missed   *)
(* tick behaviour is the default one, Burst: the next deadline is the old  *)
(* one plus the period, whatever the clock says.                           *)
(***************************************************************************)
\* The Delay and Skip behaviours, which main does not select.
NextDeadlineDelay(timeout, t, p) == t + p

NextDeadlineSkip(timeout, t, p) == timeout + ((t - timeout) \div p + 1) * p

NextDeadline(timeout, t, p) == timeout + p

\* The scheduled instants d with lo < d < hi, given the next one due.
InstantsIn(next, p, lo, hi) ==
    {k \in 0..hi : next + k * p > lo /\ next + k * p < hi}

(***************************************************************************)
(* Initial states: the process has been started and nothing has run.       *)
(***************************************************************************)
\* A cycle body whose locals outlived it.
LocalsKept == UNCHANGED localVars

\* The locals of check_and_submit go out of scope when it returns.
LocalsDropped ==
    /\ wallet' = NoKeypair
    /\ account_data' = <<>>
    /\ account_slot' = 0
    /\ mt_root' = <<>>
    /\ ws_root' = <<>>
    /\ slot_roots_account' = NoAddress
    /\ instruction_data' = <<>>
    /\ instruction' = NoInstruction
    /\ recent_blockhash' = ""
    /\ transaction' = NoTransaction

InitMain ==
    /\ configFile \in ConfigFiles
    /\ walletFile \in WalletFiles
    /\ pc = "load_config"
    /\ config = NoConfig
    /\ period = 0
    /\ deadline = 0
    /\ start = 0
    /\ now = 0
    /\ wallet = NoKeypair
    /\ account_data = <<>>
    /\ account_slot = 0
    /\ mt_root = <<>>
    /\ ws_root = <<>>
    /\ slot_roots_account = NoAddress
    /\ instruction_data = <<>>
    /\ instruction = NoInstruction
    /\ recent_blockhash = ""
    /\ transaction = NoTransaction
    /\ activeCycles = 0
    /\ calls = <<>>
    /\ submitted = <<>>
    /\ lastResult = "none"
    /\ stderr = "none"
    /\ termination = "none"
    /\ tickNo = 0
    /\ tickInstant = 0
    /\ cycleStart = 0
    /\ prevEnd = 0
    /\ allShort = TRUE
    /\ overrunEnd = -1
    /\ catchUps = 0
    /\ walletChanges = 0
    /\ afterFailure = FALSE
    /\ prevSubmission = NoSubmission
    /\ firstWallet = NoKeypair

InitRetry ==
    /\ rpc = "loop"
    /\ retries = InitialRetries
    /\ last_error = "none"
    /\ attempts = 0
    /\ slept_secs = 0
    /\ trace = <<>>
    /\ ret = "none"

Init == InitMain /\ InitRetry

(***************************************************************************)
(* main, lines 177-187.                                                    *)
(***************************************************************************)
\* let config = load_config()?; let mut interval = interval(period);
\* A failed load returns the error from main; interval() panics on a zero
\* period.  The first deadline of an Interval is the instant it is created.
LoadConfig ==
    /\ pc = "load_config"
    /\ \E dur \in StartDelays :
        LET loaded == load_config(configFile) IN
        /\ now' = now + dur
        /\ IF ~loaded.ok
           THEN /\ pc' = "terminated"
                /\ termination' = "exit_failure"
                /\ UNCHANGED schedVars
           ELSE IF loaded.value.check_interval_secs = 0
           THEN /\ pc' = "terminated"
                /\ termination' = "panic"
                /\ config' = loaded.value
                /\ UNCHANGED <<period, deadline, start>>
           ELSE /\ pc' = "tick"
                /\ termination' = "none"
                /\ config' = loaded.value
                /\ period' = loaded.value.check_interval_secs
                /\ deadline' = now'
                /\ start' = now'
    /\ UNCHANGED <<envVars, localVars, histVars, lastResult, stderr, activeCycles, ioVars>>
    /\ UNCHANGED crossVars
    /\ UNCHANGED retryVars

\* A loop that spawned the cycle body would be back at the tick while it runs.
TickReadySpawned == pc \notin {"load_config", "terminated"}

\* The loop awaits the tick only after the cycle body has returned.
TickReady == pc = "tick"

\* interval.tick().await, then the call of check_and_submit.
Tick ==
    /\ TickReady
    /\ tickNo < MaxTicks
    /\ now' = Max(now, deadline)
    /\ deadline' = NextDeadline(deadline, now', period)
    /\ pc' = "load_wallet"
    /\ activeCycles' = activeCycles + 1
    /\ calls' = <<>>
    /\ submitted' = <<>>
    /\ lastResult' = "none"
    /\ stderr' = "none"
    /\ tickNo' = tickNo + 1
    /\ tickInstant' = deadline
    /\ cycleStart' = now'
    /\ catchUps' = IF overrunEnd >= 0 /\ deadline < overrunEnd THEN catchUps + 1 ELSE catchUps
    /\ afterFailure' = (lastResult \notin {"none", "Ok"})
    /\ prevSubmission' =
           IF submitted = <<>> THEN NoSubmission
           ELSE [valid |-> TRUE,
                 slot |-> calls[1].response.slot,
                 data |-> calls[1].response.data,
                 ins |-> submitted[1].instructions[1],
                 hash |-> submitted[1].recent_blockhash]
    /\ UNCHANGED <<envVars, config, period, start, localVars, prevEnd, allShort, overrunEnd,
                   termination, firstWallet>>
    /\ UNCHANGED retryVars

\* What main prints for the value check_and_submit returned (lines 183-185).
Logged(result) == IF result = "Ok" THEN "none" ELSE result

\* check_and_submit returns result at time t: the locals are dropped, main
\* logs an error and loops back to the tick.
Return(result, t) ==
    /\ pc' = "tick"
    /\ now' = t
    /\ lastResult' = result
    /\ stderr' = Logged(result)
    /\ activeCycles' = activeCycles - 1
    /\ LocalsDropped
    /\ prevEnd' = t
    /\ allShort' = (allShort /\ t - cycleStart < period)
    /\ LET missed == Cardinality(InstantsIn(deadline, period, cycleStart, t)) IN
       /\ overrunEnd' = IF missed >= 2 THEN t ELSE overrunEnd
       /\ catchUps' = IF missed >= 2 THEN 0 ELSE catchUps
    /\ UNCHANGED <<envVars, schedVars, tickNo, tickInstant, cycleStart, termination>>
    /\ UNCHANGED crossVars
    /\ UNCHANGED retryVars

\* A panic inside the cycle body unwinds through main: the process ends.
Panic(t) ==
    /\ pc' = "terminated"
    /\ now' = t
    /\ termination' = "panic"
    /\ activeCycles' = activeCycles - 1
    /\ LocalsDropped
    /\ UNCHANGED <<envVars, schedVars, histVars, lastResult, stderr>>
    /\ UNCHANGED crossVars
    /\ UNCHANGED retryVars

\* What a step that goes on to the next step leaves alone.
BaseFrame ==
    /\ UNCHANGED <<envVars, schedVars, histVars, outVars, activeCycles, afterFailure>>
    /\ UNCHANGED retryVars

StepFrame == BaseFrame /\ UNCHANGED <<prevSubmission, firstWallet>>

(***************************************************************************)
(* check_and_submit, lines 73-150, one action per step.                    *)
(***************************************************************************)
\* Lines 74-85: the two RPC clients are built (no I/O) and the wallet file
\* is read.
LoadWallet ==
    /\ pc = "load_wallet"
    /\ LET kp == load_wallet(walletFile) IN
       IF ~kp.ok
       THEN Return("Failed to read wallet file", now) /\ UNCHANGED ioVars
       ELSE /\ pc' = "get_account"
            /\ wallet' = kp.value
            /\ UNCHANGED <<account_data, account_slot, mt_root, ws_root, slot_roots_account,
                           instruction_data, instruction, recent_blockhash, transaction>>
            /\ UNCHANGED <<now, ioVars>>
            /\ firstWallet' = IF firstWallet = NoKeypair THEN kp.value ELSE firstWallet
            /\ UNCHANGED prevSubmission
            /\ BaseFrame

\* Lines 87-98: the source address is parsed, the account is read from L2
\* and the slot is taken from the context of the same response.
GetAccount ==
    /\ pc = "get_account"
    /\ LET leaf_chunk_pubkey == Pubkey_from_str(config.leaf_chunk_address) IN
       IF ~leaf_chunk_pubkey.ok
       THEN Return("ParsePubkeyError", now) /\ UNCHANGED ioVars
       ELSE \E dur \in 0..MaxDur, response \in L2Responses :
            /\ calls' = Append(calls, Call("get_account_with_commitment", response))
            /\ UNCHANGED submitted
            /\ IF response.kind = "err"
               THEN Return(response.error, now + dur)
               ELSE IF response.kind = "none"
               THEN Return("Account not found", now + dur)
               ELSE /\ pc' = "extract"
                    /\ now' = now + dur
                    /\ account_data' = response.data
                    /\ account_slot' = response.slot
                    /\ UNCHANGED <<wallet, mt_root, ws_root, slot_roots_account,
                                   instruction_data, instruction, recent_blockhash,
                                   transaction>>
                    /\ prevSubmission' =
                           IF /\ prevSubmission.valid
                              /\ prevSubmission.slot = response.slot
                              /\ prevSubmission.data = response.data
                           THEN prevSubmission ELSE NoSubmission
                    /\ UNCHANGED firstWallet
                    /\ BaseFrame

\* Lines 100-109: the slice account_data[8..40] is taken without a length
\* check, so a buffer shorter than 40 bytes panics.
Extract ==
    /\ pc = "extract"
    /\ IF Len(account_data) < RootEnd
       THEN Panic(now) /\ UNCHANGED ioVars
       ELSE /\ pc' = "derive"
            /\ mt_root' = SliceRoot(account_data)
            /\ ws_root' = ZeroRoot
            /\ UNCHANGED <<wallet, account_data, account_slot, slot_roots_account,
                           instruction_data, instruction, recent_blockhash, transaction>>
            /\ UNCHANGED <<now, ioVars>>
            /\ StepFrame

\* Lines 111-117: the program id and the slots account are parsed, then the
\* address is derived from the seeds "roots" and the slot.
Derive ==
    /\ pc = "derive"
    /\ LET l1_program_id == Pubkey_from_str(config.l1_program_id)
           slots_account == Pubkey_from_str(config.slots_account)
       IN  IF ~l1_program_id.ok \/ ~slots_account.ok
           THEN Return("ParsePubkeyError", now) /\ UNCHANGED ioVars
           ELSE /\ pc' = "build"
                /\ slot_roots_account' =
                       find_program_address(<<RootsSeed, to_le_bytes(account_slot, SlotBytes)>>,
                                            l1_program_id.key)
                /\ UNCHANGED <<wallet, account_data, account_slot, mt_root, ws_root,
                               instruction_data, instruction, recent_blockhash, transaction>>
                /\ UNCHANGED <<now, ioVars>>
                /\ StepFrame

\* Lines 119-136: the instruction data and the instruction.
Build ==
    /\ pc = "build"
    /\ pc' = "get_latest_blockhash"
    /\ instruction_data' = BuildData(account_slot, mt_root, ws_root)
    /\ instruction' =
           [program_id |-> Pubkey_from_str(config.l1_program_id).key,
            accounts |-> BuildAccounts(Pubkey_from_str(config.slots_account).key,
                                       slot_roots_account, wallet.pubkey),
            data |-> instruction_data']
    /\ UNCHANGED <<wallet, account_data, account_slot, mt_root, ws_root, slot_roots_account,
                   recent_blockhash, transaction>>
    /\ UNCHANGED <<now, ioVars>>
    /\ StepFrame

\* A fetch whose error is ignored, the cycle going on with no block reference.
GetLatestBlockhashUnchecked ==
    /\ pc = "get_latest_blockhash"
    /\ \E dur \in 0..MaxDur, response \in BlockhashResponses :
        /\ calls' = Append(calls, Call("get_latest_blockhash", response))
        /\ UNCHANGED submitted
        /\ pc' = "sign"
        /\ now' = now + dur
        /\ recent_blockhash' = response.hash
        /\ UNCHANGED <<wallet, account_data, account_slot, mt_root, ws_root,
                       slot_roots_account, instruction_data, instruction,
                       transaction>>
        /\ StepFrame

\* Line 138.
GetLatestBlockhash ==
    /\ pc = "get_latest_blockhash"
    /\ \E dur \in 0..MaxDur, response \in BlockhashResponses :
        /\ calls' = Append(calls, Call("get_latest_blockhash", response))
        /\ UNCHANGED submitted
        /\ IF response.kind = "err"
           THEN Return(response.error, now + dur)
           ELSE /\ pc' = "sign"
                /\ now' = now + dur
                /\ recent_blockhash' = response.hash
                /\ UNCHANGED <<wallet, account_data, account_slot, mt_root, ws_root,
                               slot_roots_account, instruction_data, instruction,
                               transaction>>
                /\ StepFrame

\* Lines 139-144.
Sign ==
    /\ pc = "sign"
    /\ pc' = "send_and_confirm"
    /\ transaction' = new_signed_with_payer(instruction, wallet.pubkey, wallet, recent_blockhash)
    /\ UNCHANGED <<wallet, account_data, account_slot, mt_root, ws_root, slot_roots_account,
                   instruction_data, instruction, recent_blockhash>>
    /\ UNCHANGED <<now, ioVars>>
    /\ StepFrame

\* A submission that is skipped when the cycle before submitted the same.
SendAndConfirmOnce ==
    /\ pc = "send_and_confirm"
    /\ \E dur \in 0..MaxDur, response \in SendResponses :
        IF prevSubmission.valid
        THEN Return("Ok", now) /\ UNCHANGED ioVars
        ELSE /\ calls' = Append(calls, Call("send_and_confirm_transaction", response))
             /\ submitted' = Append(submitted, transaction)
             /\ Return(IF response.kind = "err" THEN response.error ELSE "Ok", now + dur)

\* A submission that is sent again when it fails.
SendAndConfirmRetrying ==
    /\ pc = "send_and_confirm"
    /\ \E dur \in 0..MaxDur, response \in SendResponses :
        /\ calls' = Append(calls, Call("send_and_confirm_transaction", response))
        /\ submitted' = Append(submitted, transaction)
        /\ IF response.kind = "err" /\ Len(calls) < 4
           THEN /\ pc' = pc
                /\ now' = now + dur
                /\ UNCHANGED localVars
                /\ StepFrame
           ELSE Return(IF response.kind = "err" THEN response.error ELSE "Ok", now + dur)

\* Lines 146-149: the transaction is sent and the call blocks until it is
\* confirmed or fails.
SendAndConfirm ==
    /\ pc = "send_and_confirm"
    /\ \E dur \in 0..MaxDur, response \in SendResponses :
        /\ calls' = Append(calls, Call("send_and_confirm_transaction", response))
        /\ submitted' = Append(submitted, transaction)
        /\ IF response.kind = "err"
           THEN Return(response.error, now + dur)
           ELSE Return("Ok", now + dur)

(***************************************************************************)
(* with_retry, lines 153-173.                                              *)
(***************************************************************************)
RetryOutcomes ==
    {[ok |-> TRUE, value |-> "v1"], [ok |-> TRUE, value |-> "v2"],
     [ok |-> FALSE, value |-> "e1"], [ok |-> FALSE, value |-> "e2"],
     [ok |-> FALSE, value |-> "e3"]}

\* A wrapper that kept the first error instead.
KeepFirstError(prev, e) == IF prev = "none" THEN e ELSE prev

\* Line 165: last_error = Some(e).
RecordError(prev, e) == e

\* Line 161: while retries > 0.
RetryLoop ==
    /\ rpc = "loop"
    /\ IF retries > 0
       THEN rpc' = "call" /\ ret' = ret
       ELSE rpc' = "done" /\ ret' = [ok |-> FALSE, value |-> last_error]
    /\ UNCHANGED <<retries, last_error, attempts, slept_secs, trace>>
    /\ UNCHANGED mainVars

\* Lines 162-166: one invocation of the operation.
RetryCall ==
    /\ rpc = "call"
    /\ \E outcome \in RetryOutcomes :
        /\ attempts' = attempts + 1
        /\ trace' = Append(trace, outcome)
        /\ IF outcome.ok
           THEN /\ rpc' = "done"
                /\ ret' = outcome
                /\ UNCHANGED <<retries, last_error>>
           ELSE /\ rpc' = "sleep"
                /\ last_error' = RecordError(last_error, outcome.value)
                /\ retries' = retries - 1
                /\ ret' = ret
    /\ UNCHANGED slept_secs
    /\ UNCHANGED mainVars

\* Line 167: the sleep that follows every failed attempt.
RetrySleep ==
    /\ rpc = "sleep"
    /\ rpc' = "loop"
    /\ slept_secs' = slept_secs + RetrySleepSecs
    /\ UNCHANGED <<retries, last_error, attempts, trace, ret>>
    /\ UNCHANGED mainVars

(***************************************************************************)
(* Specifications.                                                         *)
(***************************************************************************)
Next ==
    \/ LoadConfig
    \/ Tick
    \/ LoadWallet
    \/ GetAccount
    \/ Extract
    \/ Derive
    \/ Build
    \/ GetLatestBlockhash
    \/ Sign
    \/ SendAndConfirm

Spec == Init /\ [][Next]_vars

NextRetry ==
    \/ RetryLoop
    \/ RetryCall
    \/ RetrySleep

SpecRetry == Init /\ [][NextRetry]_vars

\* The environment replaces the wallet file.  Only the next load_wallet sees
\* it, so the rewrite is taken between two cycles.
WalletFileRewritten ==
    /\ pc = "tick"
    /\ walletChanges < MaxWalletChanges
    /\ \E file \in RewrittenWalletFiles \ {walletFile} : walletFile' = file
    /\ walletChanges' = walletChanges + 1
    /\ UNCHANGED <<configFile, schedVars, localVars, histVars, outVars, pc, now, activeCycles,
                   ioVars, crossVars>>
    /\ UNCHANGED retryVars

NextEnv ==
    \/ LoadConfig
    \/ Tick
    \/ LoadWallet
    \/ GetAccount
    \/ Extract
    \/ Derive
    \/ Build
    \/ GetLatestBlockhash
    \/ Sign
    \/ SendAndConfirm
    \/ WalletFileRewritten

SpecEnv == Init /\ [][NextEnv]_vars

\* The awaits of lines 89-92, 138 and 146 are not wrapped in a timeout: a
\* remote call whose future never resolves leaves the task inside it.
RemoteCallPcs == {"get_account", "get_latest_blockhash", "send_and_confirm"}

RemoteCallHangs ==
    /\ pc \in RemoteCallPcs
    /\ pc' = "hung"
    /\ UNCHANGED <<envVars, schedVars, localVars, histVars, outVars, now, activeCycles,
                   ioVars, crossVars>>
    /\ UNCHANGED retryVars

NextLive ==
    \/ LoadConfig
    \/ Tick
    \/ LoadWallet
    \/ GetAccount
    \/ Extract
    \/ Derive
    \/ Build
    \/ GetLatestBlockhash
    \/ Sign
    \/ SendAndConfirm
    \/ RemoteCallHangs

\* The task runs whenever it can; a remote call may return or hang.
SpecLive == Init /\ [][NextLive]_vars /\ WF_vars(Next)

(***************************************************************************)
(* Properties.                                                             *)
(***************************************************************************)
CyclePcs ==
    {"load_wallet", "get_account", "extract", "derive", "build",
     "get_latest_blockhash", "sign", "send_and_confirm"}

RECURSIVE le_value(_)
\* The number a little-endian byte sequence stands for.
le_value(bytes) ==
    IF bytes = <<>> THEN 0 ELSE Head(bytes) + 256 * le_value(Tail(bytes))

\* C1: once the scheduler has started, no failure of a cycle ends the
\* process: the failed cycle's error is the line logged by main, and the
\* task is back at the tick.
C1_NeverTerminatesOnCycleFailure ==
    /\ tickNo >= 1 => (pc # "terminated" /\ termination = "none")
    /\ (pc = "tick" /\ lastResult \notin {"none", "Ok"}) => stderr = lastResult

\* C2: the extraction step turns a buffer shorter than 40 bytes into the
\* error MalformedAccountData returned by the cycle, with the process still
\* running, and a buffer of 40 bytes or more into tree_root = bytes [8,40)
\* and state_root = 32 zero bytes.
C2_ExtractContract ==
    [][pc = "extract" =>
         IF Len(account_data) < 40
         THEN pc' = "tick" /\ lastResult' = "MalformedAccountData" /\ termination' = "none"
         ELSE /\ pc' = "derive"
              /\ mt_root' = SubSeq(account_data, 9, 40)
              /\ ws_root' = [i \in 1..32 |-> 0]]_vars

\* C3: the build step always succeeds and yields 80 bytes: the
\* discriminator, the slot in little-endian, tree_root, state_root.
C3_BuildLayout ==
    [][pc = "build" =>
         /\ pc' = "get_latest_blockhash"
         /\ Len(instruction_data') = 80
         /\ SubSeq(instruction_data', 1, 8) = <<249, 209, 47, 60, 18, 3, 81, 219>>
         /\ le_value(SubSeq(instruction_data', 9, 16)) = account_slot
         /\ SubSeq(instruction_data', 17, 48) = mt_root
         /\ SubSeq(instruction_data', 49, 80) = ws_root
         /\ instruction'.data = instruction_data'
         /\ (account_slot = 100 /\ mt_root = [i \in 1..32 |-> 1] /\ ws_root = [i \in 1..32 |-> 0])
                => instruction_data' =
                       <<249, 209, 47, 60, 18, 3, 81, 219, 100, 0, 0, 0, 0, 0, 0, 0>>
                       \o [i \in 1..32 |-> 1] \o [i \in 1..32 |-> 0]]_vars

C3_Witness ==
    /\ pc = "get_latest_blockhash"
    /\ account_slot = 100
    /\ mt_root = [i \in 1..32 |-> 1]
    /\ Len(instruction_data) = 80

\* C4: with_retry invokes the operation at most 3 times, never again after a
\* success, returns the first success, and when all 3 invocations fail
\* returns the error of the third.
C4_RetryAtMostThree ==
    /\ attempts <= 3
    /\ attempts = Len(trace)
    /\ \A i \in 1..(Len(trace) - 1) : ~trace[i].ok
    /\ rpc = "done" =>
          /\ Len(trace) >= 1
          /\ trace[Len(trace)].ok => ret = trace[Len(trace)]
          /\ ~trace[Len(trace)].ok =>
                 /\ Len(trace) = 3
                 /\ ret = [ok |-> FALSE, value |-> trace[3].value]

C4_Witness ==
    /\ rpc = "done"
    /\ attempts = 3
    /\ ~ret.ok
    /\ trace[1].value # trace[3].value
    /\ trace[2].value # trace[3].value

\* C5: with_retry sleeps only between attempts: a sleep is always followed
\* by another attempt, so a finished run of k attempts has slept k-1 seconds.
C5_SleepOnlyBetweenAttempts ==
    /\ rpc = "sleep" => retries > 0
    /\ rpc = "done" => slept_secs = (attempts - 1) * 1

\* C6: at most one cycle is in progress in every reachable state: none
\* while the task waits for a tick, exactly one while a cycle body runs,
\* however long the cycle takes.
C6_OneActiveCycle ==
    /\ activeCycles \in {0, 1}
    /\ pc \in CyclePcs => activeCycles = 1
    /\ pc \notin CyclePcs => activeCycles = 0

\* A cycle still running after two further tick instants have passed.
C6_Witness ==
    /\ pc = "send_and_confirm"
    /\ activeCycles = 1
    /\ tickNo >= 2
    /\ now >= cycleStart + 2 * period

\* C7: with a missing or malformed configuration, or an unreadable wallet
\* file, the process ends before the scheduler starts: no tick, no remote
\* call, no error logged by a cycle.
C7_StartupFailuresAbort ==
    (\/ configFile.status # "ok"
     \/ configFile.check_interval_secs = 0
     \/ ~Pubkey_from_str(configFile.l1_program_id).ok
     \/ ~Pubkey_from_str(configFile.leaf_chunk_address).ok
     \/ ~Pubkey_from_str(configFile.slots_account).ok
     \/ ~load_wallet(walletFile).ok)
    => /\ pc \in {"load_config", "terminated"}
       /\ tickNo = 0
       /\ calls = <<>>
       /\ stderr = "none"

\* C8: tick n is scheduled for start + n*interval whatever the cycles took,
\* and as long as every cycle took less than one interval, cycle n starts
\* exactly at that instant.
C8_FixedPeriod ==
    tickNo >= 1 =>
        /\ tickInstant = start + (tickNo - 1) * period
        /\ deadline = start + tickNo * period
        /\ allShort => cycleStart = tickInstant

\* The third cycle starts on schedule after two cycles that took time.
C8_Witness ==
    /\ tickNo = 3
    /\ pc \in CyclePcs
    /\ allShort
    /\ period = 2
    /\ prevEnd = start + 3
    /\ cycleStart = start + 4

\* C9 as stated: of the tick instants that passed during an overrunning
\* cycle, at most one gets a cycle.
C9_MissedTicksCoalesced == catchUps <= 1

\* C9 as amended: no tick instant is skipped and a tick that is already due
\* is delivered at once: cycle n starts at the later of start + n*interval
\* and the completion of cycle n-1, so the cycles for the instants missed
\* during an overrun run back-to-back.
C9_MissedTicksBurst ==
    (pc \in CyclePcs /\ tickNo >= 1) =>
        /\ tickInstant = start + (tickNo - 1) * period
        /\ cycleStart = IF tickNo = 1 THEN start ELSE Max(tickInstant, prevEnd)
        /\ (overrunEnd >= 0 /\ tickInstant <= overrunEnd) => cycleStart = prevEnd

\* Two cycles have started for instants missed during one overrun, the
\* second one right when the first completed.
C9_Witness ==
    /\ pc \in CyclePcs
    /\ catchUps = 2
    /\ cycleStart = prevEnd
    /\ tickInstant < cycleStart

\* C10: every transaction handed to the destination ledger holds one
\* instruction for the destination program with the four accounts (slots
\* account: writable; system program: read-only; derived address: writable;
\* wallet: writable signer), none but the wallet signing.
C10_AccountOrder ==
    \A n \in 1..Len(submitted) :
        LET tx == submitted[n]
            ins == tx.instructions[1]
        IN  /\ Len(tx.instructions) = 1
            /\ ins.program_id = Pubkey_from_str(config.l1_program_id).key
            /\ ins.accounts =
                   << [pubkey |-> Pubkey_from_str(config.slots_account).key,
                       is_signer |-> FALSE, is_writable |-> TRUE],
                      [pubkey |-> "11111111111111111111111111111111",
                       is_signer |-> FALSE, is_writable |-> FALSE],
                      [pubkey |-> [pda_seeds |-> <<RootsSeed, SubSeq(ins.data, 9, 16)>>,
                                   owner |-> ins.program_id],
                       is_signer |-> FALSE, is_writable |-> TRUE],
                      [pubkey |-> tx.payer,
                       is_signer |-> TRUE, is_writable |-> TRUE] >>
            /\ tx.payer = load_wallet(walletFile).value.pubkey

C10_Witness ==
    /\ Len(submitted) = 1
    /\ lastResult = "Ok"
    /\ Len(submitted[1].instructions[1].accounts) = 4

\* C11: in a cycle that submits, the slot in instruction bytes [8,16), the
\* slot in the seeds of the derived address and the root in bytes [16,48)
\* are those of the one source read of that cycle: the slot of the
\* response's context and bytes [8,40) of the data of the same response.
C11_SlotBytesConsistency ==
    \A n \in 1..Len(submitted) :
        LET ins == submitted[n].instructions[1]
            read == calls[1]
        IN  /\ read.name = "get_account_with_commitment"
            /\ read.response.kind = "some"
            /\ \A i \in 2..Len(calls) : calls[i].name # "get_account_with_commitment"
            /\ le_value(SubSeq(ins.data, 9, 16)) = read.response.slot
            /\ le_value(ins.accounts[3].pubkey.pda_seeds[2]) = read.response.slot
            /\ Len(ins.accounts[3].pubkey.pda_seeds[2]) = 8
            /\ SubSeq(ins.data, 17, 48) = SubSeq(read.response.data, 9, 40)

\* A second cycle has submitted the slot and root of its own read.
C11_Witness ==
    /\ tickNo >= 2
    /\ Len(submitted) = 1
    /\ calls[1].response.slot = 2147483647
    /\ calls[1].response.data[9] = 9

\* C12: within one cycle every remote step is attempted at most once, a
\* failed call is the last call of its cycle, and with_retry is never
\* entered by the cycle.
C12_NoAutomaticRetry ==
    /\ Len(calls) <= 3
    /\ \A i, j \in 1..Len(calls) : i # j => calls[i].name # calls[j].name
    /\ \A i \in 1..Len(calls) :
           calls[i].response.kind = "err" => (i = Len(calls) /\ pc = "tick")
    /\ Len(submitted) <= 1
    /\ rpc = "loop" /\ attempts = 0 /\ slept_secs = 0

\* A submission has failed and the cycle has ended without a second try.
C12_Witness ==
    /\ pc = "tick"
    /\ Len(calls) = 3
    /\ calls[3].name = "send_and_confirm_transaction"
    /\ calls[3].response.kind = "err"
    /\ lastResult = calls[3].response.error

\* C13: the derived address is a function of the seed "roots", the slot in
\* 8 little-endian bytes and the destination program id, and of nothing
\* else: whatever the account bytes, the wallet, the block reference or the
\* cycle, the address held for a slot and a program is this one value.
C13_DerivationPure ==
    pc \in {"build", "get_latest_blockhash", "sign", "send_and_confirm"} =>
        /\ DOMAIN slot_roots_account = {"pda_seeds", "owner"}
        /\ slot_roots_account.owner = Pubkey_from_str(config.l1_program_id).key
        /\ Len(slot_roots_account.pda_seeds) = 2
        /\ slot_roots_account.pda_seeds[1] = <<114, 111, 111, 116, 115>>
        /\ Len(slot_roots_account.pda_seeds[2]) = 8
        /\ \A i \in 1..8 : slot_roots_account.pda_seeds[2][i] \in 0..255
        /\ le_value(slot_roots_account.pda_seeds[2]) = account_slot

\* A later cycle holds the address of slot 100 while its account bytes and
\* block reference are not those of scenario A.
C13_Witness ==
    /\ tickNo >= 2
    /\ pc = "sign"
    /\ account_slot = 100
    /\ account_data = Ramp(48, 9)
    /\ recent_blockhash = "hashB"
    /\ slot_roots_account.pda_seeds[2] = <<100, 0, 0, 0, 0, 0, 0, 0>>

NextStep ==
    [load_wallet |-> "get_account", get_account |-> "extract", extract |-> "derive",
     derive |-> "build", build |-> "get_latest_blockhash",
     get_latest_blockhash |-> "sign", sign |-> "send_and_confirm",
     send_and_confirm |-> "tick"]

\* C14: a cycle goes through its steps in the one order read, extract,
\* derive, build, fetch, sign, submit; a step that fails ends the cycle, so
\* no later step runs: a failed read, a missing account or a failed fetch
\* leaves nothing submitted, the error is what the cycle returns, and the
\* task is back at the tick.
C14_SequentialAbort ==
    [][/\ pc \in CyclePcs =>
             \/ pc' = NextStep[pc] /\ lastResult' \in {"none", "Ok"}
             \/ pc' = "tick" /\ lastResult' \notin {"none", "Ok"}
             \/ pc' = "terminated"
       /\ pc = "tick" => (pc' = "load_wallet" /\ calls' = <<>> /\ submitted' = <<>>)
       /\ (Len(calls') > Len(calls) /\ calls'[Len(calls')].response.kind \in {"err", "none"}) =>
             /\ pc' = "tick"
             /\ termination' = "none"
             /\ lastResult' \notin {"none", "Ok"}
             /\ stderr' = lastResult'
             /\ calls'[Len(calls')].name # "send_and_confirm_transaction" => submitted' = <<>>
       /\ submitted' # submitted =>
             (pc = "tick" \/ (pc = "send_and_confirm" /\ Len(calls) = 2
                               /\ calls[1].response.kind = "some"
                               /\ calls[2].response.kind = "ok"))]_vars

\* The block-reference fetch has failed: nothing was submitted and the task
\* waits for the next tick.
C14_Witness ==
    /\ pc = "tick"
    /\ Len(calls) = 2
    /\ calls[2].name = "get_latest_blockhash"
    /\ calls[2].response.kind = "err"
    /\ submitted = <<>>
    /\ lastResult = "TransportError"
    /\ termination = "none"

\* The transaction that the context and the responses of one cycle fix.
ExpectedTransaction(cfg, file, read, fetched) ==
    LET program == "pk:" \o cfg.l1_program_id
        payer == "W-" \o file
        slot_le == SubSeq(to_le_bytes(read.slot, 8), 1, 8)
    IN  [instructions |->
            << [program_id |-> program,
                accounts |->
                    << [pubkey |-> "pk:" \o cfg.slots_account,
                        is_signer |-> FALSE, is_writable |-> TRUE],
                       [pubkey |-> "11111111111111111111111111111111",
                        is_signer |-> FALSE, is_writable |-> FALSE],
                       [pubkey |-> [pda_seeds |-> <<<<114, 111, 111, 116, 115>>, slot_le>>,
                                    owner |-> program],
                        is_signer |-> FALSE, is_writable |-> TRUE],
                       [pubkey |-> payer, is_signer |-> TRUE, is_writable |-> TRUE] >>,
                data |-> <<249, 209, 47, 60, 18, 3, 81, 219>> \o slot_le
                         \o SubSeq(read.data, 9, 40) \o [i \in 1..32 |-> 0]] >>,
         payer |-> payer,
         signers |-> <<payer>>,
         recent_blockhash |-> fetched.hash]

\* C15: between two cycles nothing of the cycle body is left, whether it
\* succeeded or failed: every local is gone when the task waits for the tick
\* and when the next cycle begins; and what a cycle submits is fixed by the
\* context and by the responses of that same cycle.
C15_StatelessBetweenCycles ==
    /\ pc \in {"tick", "load_wallet"} =>
          /\ wallet = NoKeypair
          /\ account_data = <<>>
          /\ account_slot = 0
          /\ mt_root = <<>>
          /\ ws_root = <<>>
          /\ slot_roots_account = NoAddress
          /\ instruction_data = <<>>
          /\ instruction = NoInstruction
          /\ recent_blockhash = ""
          /\ transaction = NoTransaction
    /\ \A n \in 1..Len(submitted) :
          submitted[n] =
              ExpectedTransaction(config, walletFile, calls[1].response, calls[2].response)

\* The cycle after a failed one has submitted what its own responses fix.
C15_Witness ==
    /\ afterFailure
    /\ pc = "tick"
    /\ lastResult = "Ok"
    /\ Len(submitted) = 1

\* C16: the context is loaded once: the configuration used is the one
\* loaded at startup, and every cycle signs with the keypair of the first
\* cycle.
C16_ContextLoadedOnce ==
    /\ pc \in CyclePcs \cup {"tick"} => config = configFile
    /\ pc \in CyclePcs \ {"load_wallet"} => wallet = firstWallet
    /\ \A n \in 1..Len(submitted) :
          /\ submitted[n].payer = firstWallet.pubkey
          /\ submitted[n].signers = <<firstWallet.pubkey>>

\* C17: a cycle that has read the slot and the bytes for which the cycle
\* before it submitted builds the same instruction and submits it again:
\* the submit step always hands its transaction to the destination ledger.
C17_NoDuplicateGuard ==
    [][/\ (pc = "build" /\ prevSubmission.valid) => instruction' = prevSubmission.ins
       /\ pc = "sign" =>
             /\ pc' = "send_and_confirm"
             /\ transaction'.instructions = <<instruction>>
       /\ pc = "send_and_confirm" =>
             /\ submitted' = <<transaction>>
             /\ calls'[Len(calls')].name = "send_and_confirm_transaction"
             /\ prevSubmission.valid =>
                    /\ transaction.instructions = <<prevSubmission.ins>>
                    /\ transaction.instructions[1].accounts[3] =
                           prevSubmission.ins.accounts[3]]_vars

\* Two cycles in a row have submitted for the same slot and bytes.
C17_Witness ==
    /\ pc = "tick"
    /\ prevSubmission.valid
    /\ Len(submitted) = 1
    /\ submitted[1].instructions[1] = prevSubmission.ins
    /\ calls[1].response.slot = prevSubmission.slot
    /\ lastResult = "Ok"

\* C18: a new cycle starts only once the cycle before has returned, and a
\* remote call that never returns keeps the task in it for ever, so no later
\* cycle starts; and a started cycle all of whose remote calls return is
\* followed by the start of the next cycle.
C18_NoTimeout ==
    /\ [][tickNo' # tickNo => pc = "tick"]_vars
    /\ [](pc = "hung" => [](pc = "hung" /\ activeCycles = 1))
    /\ \A n \in 1..(MaxTicks - 1) : (tickNo = n) ~> (tickNo = n + 1 \/ pc = "hung")

\* C19: every submitted transaction carries the block reference that the
\* same cycle fetched after its source read, has the wallet as its only
\* signer, and the wallet pays the fee.
C19_FreshBlockReference ==
    \A n \in 1..Len(submitted) :
        LET tx == submitted[n] IN
        /\ Len(calls) >= 2
        /\ calls[1].name = "get_account_with_commitment"
        /\ calls[2].name = "get_latest_blockhash"
        /\ calls[2].response.kind = "ok"
        /\ tx.recent_blockhash = calls[2].response.hash
        /\ tx.signers = <<tx.payer>>
        /\ tx.payer = load_wallet(walletFile).value.pubkey
        /\ \A i \in 1..4 : tx.instructions[1].accounts[i].is_signer <=> i = 4
        /\ tx.instructions[1].accounts[4].pubkey = tx.payer

\* A cycle has submitted with a block reference other than the one of the
\* cycle before it.
C19_Witness ==
    /\ pc = "tick"
    /\ prevSubmission.valid
    /\ Len(submitted) = 1
    /\ prevSubmission.hash = "hashA"
    /\ submitted[1].recent_blockhash = "hashB"

====
